---- MODULE Spec2Model ----
(***************************************************************************)
(* Model of src/upload_youtube.py: one call of upload_video, including the *)
(* get_service call it makes.  Every external interaction (token file,     *)
(* authorization server, upload endpoint, thumbnail and playlist           *)
(* endpoints) is one step whose outcome is chosen nondeterministically.    *)
(*                                                                         *)
(* Spec     : a direct call of upload_video.                               *)
(* SpecMain : main, from the merged arguments to the exit status.          *)
(* SpecConc : two get_service calls on the same token file.                *)
(*                                                                         *)
(* Sizes are counted in MiB: the chunk size 8 * 1024 * 1024 of line 141 is *)
(* ChunkSize = 8, a 20 MiB file is fileSize = 20.                          *)
(***************************************************************************)
EXTENDS Integers, Sequences, FiniteSets, TLC

\* ---------------------------------------------------------------- bounds
\* Largest number of full chunks in a modelled file.
MaxChunks == 2
\* Largest number of next_chunk calls followed in one upload.
MaxCalls == 4

\* ------------------------------------------------------ program constants
\* chunksize=8 * 1024 * 1024 (line 141), in MiB.
ChunkSize == 8
\* tqdm(total=100) and int(progress * 100): progress is a percentage.
Percent == 100

\* ------------------------------------------------------------- encodings
\* Python's None / a present value, as a sequence of length 0 / 1.
None == <<>>
Some(x) == <<x>>
Val(o) == o[1]

\* A pickled google Credentials object is a record: token identifies the
\* access token; expired and refresh_token are the attributes get_service
\* reads.  Every pickled credential came out of a refresh or an authorization
\* flow, so it carries an access token.

\* Contents TOKEN_FILE can have when get_service starts.
StoredCreds == [token : {1}, expired : BOOLEAN, refresh_token : BOOLEAN]

\* File sizes (MiB) of the uploaded file: N > 0.
FileSizes == {k * ChunkSize + d : k \in 0..MaxChunks, d \in {1, ChunkSize \div 2, ChunkSize}}

\* privacy_status choices of the CLI (line 199).
PrivacyChoices == {"public", "unlisted", "private"}

\* publish_at values: None, the empty string, an RFC3339 timestamp.
PublishAtChoices == {None, Some(""), Some("2025-01-31T10:00:00Z")}

\* thumbnail_path: None, a path that does not exist, a path that exists.
ThumbnailChoices == {"None", "missing", "exists"}

\* playlist_id: None, the empty string, or an id.
PlaylistChoices == {None, Some(""), Some("PL1")}

\* Bodies a terminal (200/201) upload response can carry.
Responses == {[id |-> "abc123"], [id |-> ""], [kind |-> "youtube#video"]}

VARIABLES
    pc,              \* position in upload_video / get_service
    file_exists,     \* os.path.exists(file_path)
    fileSize,        \* size of the file as MediaFileUpload reads it, MiB
    privacy_status,  \* argument
    publish_at,      \* argument
    thumbnail,       \* argument thumbnail_path and whether it exists
    playlist_id,     \* argument
    secrets_exists,  \* os.path.exists(CLIENT_SECRETS_FILE)
    store,           \* contents of TOKEN_FILE
    creds,           \* get_service's local creds
    loaded,          \* what _load_token returned
    service,         \* credentials of the built service
    issued,          \* last access token issued by the authorization server
    gsCalls,         \* number of get_service invocations
    storeReads,      \* number of _load_token calls
    storeWrites,     \* number of _save_token calls
    refreshCaught,   \* the except clause of line 40 ran
    netlog,          \* calls to external services other than chunk transfers
    body,            \* status part of the body given to videos().insert
    negotiated,      \* resumable_uri obtained
    offset,          \* resumable_progress
    chunks,          \* lengths of the chunk requests sent, in order
    chunkErrors,     \* number of next_chunk calls that raised in transfer
    anomaly,         \* some acknowledgment was not a full acknowledgment
    response,        \* response of the loop
    last_progress,   \* local last_progress
    emitted,         \* positions shown on the progress bar, in order
    pbar,            \* progress bar: "none", "open", "closed"
    video_id,        \* local video_id
    result,          \* value returned by upload_video
    err,             \* exception leaving upload_video
    inserts,         \* number of videos().insert requests created
    storeLog,        \* credentials written to TOKEN_FILE, in order
    pcB,             \* second caller of get_service: position
    credsB,          \* second caller: local creds
    loadedB,         \* second caller: what _load_token returned
    serviceB,        \* second caller: credentials of the built service
    netlogB,         \* second caller: calls to the authorization server
    file_path,       \* main: file_path after merging flags and metadata
    title,           \* main: title after merging flags and metadata
    publish_at_input, \* main: publish_at before parsing
    exitCode         \* exit status of the process running main

vars == <<pc, file_exists, fileSize, privacy_status, publish_at, thumbnail,
          playlist_id, secrets_exists, store, creds, loaded, service, issued,
          gsCalls, storeReads, storeWrites, refreshCaught, netlog, body,
          negotiated, offset,
          chunks, chunkErrors, anomaly, response, last_progress, emitted,
          pbar, video_id, result, err, inserts, storeLog, pcB, credsB,
          loadedB, serviceB, netlogB, file_path, title, publish_at_input,
          exitCode>>

inputVars == <<file_exists, fileSize, privacy_status, publish_at, thumbnail,
               playlist_id, secrets_exists>>
gsVars == <<creds, loaded, service, issued, gsCalls, storeReads, storeWrites,
            refreshCaught>>
loopVars == <<negotiated, offset, chunks, chunkErrors, anomaly, response,
              last_progress, emitted>>
bVars == <<pcB, credsB, loadedB, serviceB, netlogB>>
mainVars == <<file_path, title, publish_at_input, exitCode>>

Init ==
    /\ pc = "uv_start"
    /\ file_exists \in BOOLEAN
    /\ fileSize = 0
    /\ privacy_status \in PrivacyChoices
    /\ publish_at \in PublishAtChoices
    /\ thumbnail \in ThumbnailChoices
    /\ playlist_id \in PlaylistChoices
    /\ secrets_exists \in BOOLEAN
    /\ store \in {None} \cup {Some(c) : c \in StoredCreds}
    /\ creds = None
    /\ loaded = None
    /\ service = None
    /\ issued = 1
    /\ gsCalls = 0
    /\ storeReads = 0
    /\ storeWrites = 0
    /\ refreshCaught = FALSE
    /\ netlog = <<>>
    /\ body = None
    /\ negotiated = FALSE
    /\ offset = 0
    /\ chunks = <<>>
    /\ chunkErrors = 0
    /\ anomaly = FALSE
    /\ response = None
    /\ last_progress = 0
    /\ emitted = <<>>
    /\ pbar = "none"
    /\ video_id = None
    /\ result = None
    /\ err = "none"
    /\ inserts = 0
    /\ storeLog = <<>>
    /\ pcB = "idle"
    /\ credsB = None
    /\ loadedB = None
    /\ serviceB = None
    /\ netlogB = <<>>
    /\ file_path = None
    /\ title = None
    /\ publish_at_input = None
    /\ exitCode = None

\* An entry of netlog: the call, whether it succeeded, and what it carried
\* or produced (the access token of a refresh or flow, the videoId of a
\* thumbnail or playlist call).
Call(name, ok, arg) == [call |-> name, ok |-> ok, arg |-> arg]

\* An exception leaves upload_video.
Raise(e) ==
    /\ pc' = "failed"
    /\ err' = e

\* UploadStart without the file check.
UploadStart_NoFileCheck ==
    /\ pc = "uv_start"
    /\ pc' = "gs_load"
    /\ gsCalls' = gsCalls + 1
    /\ UNCHANGED <<bVars, mainVars, inserts, storeLog, refreshCaught,
                   inputVars, store, creds, loaded, service, issued,
                   storeReads, storeWrites, netlog, body, loopVars, pbar,
                   video_id, result, err>>

\* upload_video, lines 115-118: the file check, then the call of get_service.
UploadStart ==
    /\ pc = "uv_start"
    /\ IF ~file_exists
         THEN /\ Raise("FileNotFoundError:video")
              /\ UNCHANGED gsCalls
         ELSE /\ pc' = "gs_load"
              /\ gsCalls' = gsCalls + 1
              /\ UNCHANGED err
    /\ UNCHANGED <<bVars, mainVars, inserts, storeLog, refreshCaught,
                   inputVars, store, creds, loaded, service, issued,
                   storeReads, storeWrites, netlog, body, loopVars, pbar,
                   video_id, result>>

\* ------------------------------------------------------------ get_service
\* google.auth Credentials.valid: an access token is present and the
\* credential is not expired.  Modelled credentials always carry a token.
Valid(c) == ~c.expired

\* Refreshable without the refresh_token test.
Refreshable_AnyExpired(o) == o /= None /\ Val(o).expired

\* The condition of lines 36 and 44:
\* creds and creds.expired and creds.refresh_token.
Refreshable(o) == o /= None /\ Val(o).expired /\ Val(o).refresh_token

\* NeedsAuthorization without the validity test.
NeedsAuthorization_OnlyIfAbsent(o) == o = None

\* The condition of line 43: not creds or not creds.valid.
NeedsAuthorization(o) == o = None \/ ~Valid(Val(o))

\* What creds.refresh(Request()) can do: raise, or replace the access token
\* in place; the new token may already count as expired (a lifetime inside
\* the library's expiry skew).
RefreshOutcomes == {"fail", "valid", "still_expired"}

\* creds after a successful refresh issuing access token t.
Refreshed(c, t, outcome) ==
    [token |-> t, expired |-> (outcome = "still_expired"),
     refresh_token |-> c.refresh_token]

\* _load_token (lines 22-26) as called on line 35, and the test of line 36.
LoadToken ==
    /\ pc = "gs_load"
    /\ storeReads' = storeReads + 1
    /\ creds' = store
    /\ loaded' = store
    /\ pc' = IF Refreshable(store) THEN "gs_refresh1" ELSE "gs_check"
    /\ UNCHANGED <<bVars, mainVars, inserts, storeLog, refreshCaught,
                   inputVars, store, service, issued, gsCalls, storeWrites,
                   netlog, body, loopVars, pbar, video_id, result, err>>

\* TryRefresh whose except clause keeps creds.
TryRefresh_KeepsCreds ==
    /\ pc = "gs_refresh1"
    /\ \E outcome \in RefreshOutcomes :
       /\ netlog' = Append(netlog, Call("refresh", outcome /= "fail",
                        IF outcome = "fail" THEN None ELSE Some(issued + 1)))
       /\ IF outcome = "fail"
           THEN /\ refreshCaught' = TRUE
                /\ pc' = "gs_check"
                /\ UNCHANGED <<creds, issued>>
           ELSE /\ creds' = Some(Refreshed(Val(creds), issued + 1, outcome))
                /\ issued' = issued + 1
                /\ pc' = "gs_save1"
                /\ UNCHANGED refreshCaught
    /\ UNCHANGED <<bVars, mainVars, inserts, storeLog, inputVars, store,
                   loaded, service, gsCalls, storeReads, storeWrites, body,
                   loopVars, pbar, video_id, result, err>>

\* Lines 37-41: creds.refresh inside try; any exception sets creds = None.
TryRefresh ==
    /\ pc = "gs_refresh1"
    /\ \E outcome \in RefreshOutcomes :
       /\ netlog' = Append(netlog, Call("refresh", outcome /= "fail",
                        IF outcome = "fail" THEN None ELSE Some(issued + 1)))
       /\ IF outcome = "fail"
           THEN /\ creds' = None
                /\ refreshCaught' = TRUE
                /\ pc' = "gs_check"
                /\ UNCHANGED issued
           ELSE /\ creds' = Some(Refreshed(Val(creds), issued + 1, outcome))
                /\ issued' = issued + 1
                /\ pc' = "gs_save1"
                /\ UNCHANGED refreshCaught
    /\ UNCHANGED <<bVars, mainVars, inserts, storeLog, inputVars, store,
                   loaded, service, gsCalls, storeReads, storeWrites, body,
                   loopVars, pbar, video_id, result, err>>

\* SaveToken that pickles the credential as it was loaded.
SaveToken_Stale(nextpc) ==
    /\ store' = loaded
    /\ storeWrites' = storeWrites + 1
    /\ storeLog' = Append(storeLog, Val(creds))
    /\ pc' = nextpc
    /\ UNCHANGED <<bVars, mainVars, inserts, refreshCaught, inputVars, creds,
                   loaded, service, issued, gsCalls, storeReads, netlog, body,
                   loopVars, pbar, video_id, result, err>>

\* SaveToken that returns without writing the file.
SaveToken_Skipped(nextpc) ==
    /\ pc' = nextpc
    /\ UNCHANGED <<bVars, mainVars, inserts, storeLog, store, storeWrites,
                   refreshCaught, inputVars, creds, loaded, service, issued,
                   gsCalls, storeReads, netlog, body, loopVars, pbar,
                   video_id, result, err>>

\* _save_token (lines 29-31): pickle creds into TOKEN_FILE.
SaveToken(nextpc) ==
    /\ store' = creds
    /\ storeWrites' = storeWrites + 1
    /\ storeLog' = Append(storeLog, Val(creds))
    /\ pc' = nextpc
    /\ UNCHANGED <<bVars, mainVars, inserts, refreshCaught, inputVars, creds,
                   loaded, service, issued, gsCalls, storeReads, netlog, body,
                   loopVars, pbar, video_id, result, err>>

\* Line 39: _save_token after the refresh of line 38.
SaveRefreshed ==
    /\ pc = "gs_save1"
    /\ SaveToken("gs_check")

\* CheckValid without the client-secrets check of lines 48-52.
CheckValid_NoSecretsCheck ==
    /\ pc = "gs_check"
    /\ pc' = IF ~NeedsAuthorization(creds) THEN "gs_build"
             ELSE IF Refreshable(creds) THEN "gs_refresh2" ELSE "gs_local"
    /\ UNCHANGED <<bVars, mainVars, inserts, storeLog, inputVars, store,
                   gsVars, netlog, body, loopVars, pbar, video_id, result,
                   err>>

\* Lines 43-53: which branch get_service takes after the first block.
CheckValid ==
    /\ pc = "gs_check"
    /\ IF ~NeedsAuthorization(creds)
         THEN pc' = "gs_build" /\ UNCHANGED err
         ELSE IF Refreshable(creds)
           THEN pc' = "gs_refresh2" /\ UNCHANGED err
           ELSE IF ~secrets_exists
             THEN Raise("FileNotFoundError:client_secrets")
             ELSE pc' = "gs_local" /\ UNCHANGED err
    /\ UNCHANGED <<bVars, mainVars, inserts, storeLog, inputVars, store,
                   gsVars, netlog, body, loopVars, pbar, video_id, result>>

\* Line 45: creds.refresh outside any try; an exception leaves get_service.
SecondRefresh ==
    /\ pc = "gs_refresh2"
    /\ \E outcome \in RefreshOutcomes :
       /\ netlog' = Append(netlog, Call("refresh", outcome /= "fail",
                        IF outcome = "fail" THEN None ELSE Some(issued + 1)))
       /\ IF outcome = "fail"
           THEN /\ Raise("RefreshError")
                /\ UNCHANGED <<creds, issued>>
           ELSE /\ creds' = Some(Refreshed(Val(creds), issued + 1, outcome))
                /\ issued' = issued + 1
                /\ pc' = "gs_save2"
                /\ UNCHANGED err
    /\ UNCHANGED <<bVars, mainVars, inserts, storeLog, refreshCaught,
                   inputVars, store, loaded, service, gsCalls, storeReads,
                   storeWrites, body, loopVars, pbar, video_id, result>>

\* Line 46: _save_token after the refresh of line 45.
SaveSecondRefresh ==
    /\ pc = "gs_save2"
    /\ SaveToken("gs_build")

\* A credential produced by an interactive flow, with access token t.
Authorized(t, rt) == [token |-> t, expired |-> FALSE, refresh_token |-> rt]

\* RunLocalServer followed by the console flow whatever it returned.
RunLocalServer_ThenConsole ==
    /\ pc = "gs_local"
    /\ pc' = "gs_console"
    /\ \/ /\ \E rt \in BOOLEAN : creds' = Some(Authorized(issued + 1, rt))
          /\ issued' = issued + 1
          /\ netlog' = Append(netlog,
                              Call("run_local_server", TRUE, Some(issued + 1)))
       \/ /\ netlog' = Append(netlog, Call("run_local_server", FALSE, None))
          /\ UNCHANGED <<creds, issued>>
    /\ UNCHANGED <<bVars, mainVars, inserts, storeLog, refreshCaught,
                   inputVars, store, loaded, service, gsCalls, storeReads,
                   storeWrites, body, loopVars, pbar, video_id, result, err>>

\* Lines 54-57: flow.run_local_server; any exception leads to the console flow.
RunLocalServer ==
    /\ pc = "gs_local"
    /\ \/ /\ \E rt \in BOOLEAN : creds' = Some(Authorized(issued + 1, rt))
          /\ issued' = issued + 1
          /\ netlog' = Append(netlog, Call("run_local_server", TRUE, Some(issued + 1)))
          /\ pc' = "gs_save3"
       \/ /\ pc' = "gs_console"
          /\ netlog' = Append(netlog, Call("run_local_server", FALSE, None))
          /\ UNCHANGED <<creds, issued>>
    /\ UNCHANGED <<bVars, mainVars, inserts, storeLog, refreshCaught,
                   inputVars, store, loaded, service, gsCalls, storeReads,
                   storeWrites, body, loopVars, pbar, video_id, result, err>>

\* Line 58: flow.run_console; an exception leaves get_service.
RunConsole ==
    /\ pc = "gs_console"
    /\ \/ /\ \E rt \in BOOLEAN : creds' = Some(Authorized(issued + 1, rt))
          /\ issued' = issued + 1
          /\ netlog' = Append(netlog, Call("run_console", TRUE, Some(issued + 1)))
          /\ pc' = "gs_save3"
          /\ UNCHANGED err
       \/ /\ Raise("AuthError")
          /\ netlog' = Append(netlog, Call("run_console", FALSE, None))
          /\ UNCHANGED <<creds, issued>>
    /\ UNCHANGED <<bVars, mainVars, inserts, storeLog, refreshCaught,
                   inputVars, store, loaded, service, gsCalls, storeReads,
                   storeWrites, body, loopVars, pbar, video_id, result>>

\* Line 59: _save_token after the interactive flow.
SaveAuthorized ==
    /\ pc = "gs_save3"
    /\ SaveToken("gs_build")

\* Line 61: build("youtube", "v3", credentials=creds); get_service returns.
BuildService ==
    /\ pc = "gs_build"
    /\ service' = creds
    /\ pc' = "uv_body"
    /\ UNCHANGED <<bVars, mainVars, inserts, storeLog, refreshCaught,
                   inputVars, store, creds, loaded, issued, gsCalls,
                   storeReads, storeWrites, netlog, body, loopVars, pbar,
                   video_id, result, err>>

\* ----------------------------------------------------------- upload_video
\* Python truthiness of an Optional[str]: neither None nor "".
Truthy(o) == o /= None /\ Val(o) /= ""

\* StatusBody without the override of lines 124-125.
StatusBody_KeepsPrivacy(ps, pa) ==
    IF Truthy(pa)
      THEN [privacyStatus |-> ps, publishAt |-> Val(pa)]
      ELSE [privacyStatus |-> ps]

\* Lines 120-125: the status dict.  (madeForKids, lines 127-128, and the
\* snippet are carried along unchanged and are left out.)
StatusBody(ps, pa) ==
    IF Truthy(pa)
      THEN [privacyStatus |-> IF ps /= "private" THEN "private" ELSE ps,
            publishAt |-> Val(pa)]
      ELSE [privacyStatus |-> ps]

\* Lines 120-148: body, MediaFileUpload, videos().insert(...), the progress
\* bar and last_progress = 0.  MediaFileUpload reads the size of the file.
BuildRequest ==
    /\ pc = "uv_body"
    /\ body' = Some(StatusBody(privacy_status, publish_at))
    /\ fileSize' \in FileSizes
    /\ pbar' = "open"
    /\ last_progress' = 0
    /\ inserts' = inserts + 1
    /\ pc' = "uv_loop"
    /\ UNCHANGED <<bVars, mainVars, storeLog, file_exists, privacy_status,
                   publish_at, thumbnail, playlist_id, secrets_exists, store,
                   gsVars, netlog, negotiated, offset, chunks, chunkErrors,
                   anomaly, response, emitted, video_id, result, err>>

Min(a, b) == IF a < b THEN a ELSE b

\* ChunkLen that never shortens the last chunk.
ChunkLen_AlwaysFull(off, n) == ChunkSize

\* Length of the chunk that next_chunk sends when resumable_progress = off:
\* chunksize bytes, or what is left of the file.
ChunkLen(off, n) == Min(ChunkSize, n - off)

\* Line 153: int(status_chunk.progress() * 100), progress() being
\* resumable_progress / total_size.  The float arithmetic is monotone in the
\* offset, as this integer quotient is.
ProgressOf(off, n) == (Percent * off) \div n

\* Advances with >= for >.
Advances_OrEqual(progress, last) == progress >= last

\* Line 154: the test that lets a progress value through to the bar.
Advances(progress, last) == progress > last

\* Offsets a 308 acknowledgment of the chunk [off, end) can name: the whole
\* chunk, nothing of it, or nothing of the file.
AckOffsets(off, end) == {end, off, 0}

\* NextChunk that answers a failed chunk transfer with a new insert request.
NextChunk_Renegotiates ==
    /\ pc = "uv_loop"
    /\ response = None
    /\ Len(chunks) < MaxCalls
    /\ LET len == ChunkLen(offset, fileSize)
           end == offset + len
           log == IF negotiated THEN netlog
                  ELSE Append(netlog, Call("negotiate", TRUE, None))
       IN  \/ \* the session cannot be opened
              /\ ~negotiated
              /\ netlog' = Append(netlog, Call("negotiate", FALSE, None))
              /\ Raise("NegotiationError")
              /\ pbar' = "closed"
              /\ UNCHANGED loopVars
           \/ \* the chunk transfer fails (network error, 5xx)
              /\ netlog' = log
              /\ negotiated' = TRUE
              /\ chunks' = Append(chunks, len)
              /\ chunkErrors' = chunkErrors + 1
              /\ pc' = "uv_body"
              /\ UNCHANGED <<err, pbar>>
              /\ UNCHANGED <<offset, anomaly, response, last_progress,
                             emitted>>
           \/ \* 308: incomplete, resume at offset x
              /\ netlog' = log
              /\ negotiated' = TRUE
              /\ chunks' = Append(chunks, len)
              /\ \E x \in AckOffsets(offset, end) :
                   /\ x < fileSize
                   /\ offset' = x
                   /\ anomaly' = (anomaly \/ x /= end)
                   /\ LET progress == ProgressOf(x, fileSize)
                      IN  IF Advances(progress, last_progress)
                            THEN /\ emitted' = Append(emitted, progress)
                                 /\ last_progress' = progress
                            ELSE UNCHANGED <<emitted, last_progress>>
              /\ UNCHANGED <<pc, err, pbar, chunkErrors, response>>
           \/ \* 200/201: complete, the final resource is returned
              /\ end = fileSize
              /\ netlog' = log
              /\ negotiated' = TRUE
              /\ chunks' = Append(chunks, len)
              /\ \E r \in Responses : response' = Some(r)
              /\ offset' = end
              /\ pc' = "uv_check"
              /\ UNCHANGED <<err, pbar, chunkErrors, anomaly, last_progress,
                             emitted>>
    /\ UNCHANGED <<bVars, mainVars, inserts, storeLog, inputVars, store,
                   gsVars, body, video_id, result>>

\* Lines 150-156 and the finally of 159-160: one turn of the loop.  On its
\* first call next_chunk opens the resumable session; it then sends one
\* chunk and returns (status, None) on 308, (None, body) on 200/201, or
\* raises.
NextChunk ==
    /\ pc = "uv_loop"
    /\ response = None
    /\ Len(chunks) < MaxCalls
    /\ LET len == ChunkLen(offset, fileSize)
           end == offset + len
           log == IF negotiated THEN netlog
                  ELSE Append(netlog, Call("negotiate", TRUE, None))
       IN  \/ \* the session cannot be opened
              /\ ~negotiated
              /\ netlog' = Append(netlog, Call("negotiate", FALSE, None))
              /\ Raise("NegotiationError")
              /\ pbar' = "closed"
              /\ UNCHANGED loopVars
           \/ \* the chunk transfer fails (network error, 5xx)
              /\ netlog' = log
              /\ negotiated' = TRUE
              /\ chunks' = Append(chunks, len)
              /\ chunkErrors' = chunkErrors + 1
              /\ Raise("HttpError:chunk")
              /\ pbar' = "closed"
              /\ UNCHANGED <<offset, anomaly, response, last_progress,
                             emitted>>
           \/ \* 308: incomplete, resume at offset x
              /\ netlog' = log
              /\ negotiated' = TRUE
              /\ chunks' = Append(chunks, len)
              /\ \E x \in AckOffsets(offset, end) :
                   /\ x < fileSize
                   /\ offset' = x
                   /\ anomaly' = (anomaly \/ x /= end)
                   /\ LET progress == ProgressOf(x, fileSize)
                      IN  IF Advances(progress, last_progress)
                            THEN /\ emitted' = Append(emitted, progress)
                                 /\ last_progress' = progress
                            ELSE UNCHANGED <<emitted, last_progress>>
              /\ UNCHANGED <<pc, err, pbar, chunkErrors, response>>
           \/ \* 200/201: complete, the final resource is returned
              /\ end = fileSize
              /\ netlog' = log
              /\ negotiated' = TRUE
              /\ chunks' = Append(chunks, len)
              /\ \E r \in Responses : response' = Some(r)
              /\ offset' = end
              /\ pc' = "uv_check"
              /\ UNCHANGED <<err, pbar, chunkErrors, anomaly, last_progress,
                             emitted>>
    /\ UNCHANGED <<bVars, mainVars, inserts, storeLog, inputVars, store,
                   gsVars, body, video_id, result>>

\* Line 157: "id" not in response.
LacksId(r) == "id" \notin DOMAIN r

\* CheckResponse reading the id with a default instead of raising.
CheckResponse_DefaultsId ==
    /\ pc = "uv_check"
    /\ pbar' = "closed"
    /\ video_id' = Some(IF LacksId(Val(response)) THEN "" ELSE Val(response).id)
    /\ pc' = "uv_thumb"
    /\ UNCHANGED <<bVars, mainVars, inserts, storeLog, inputVars, store,
                   gsVars, netlog, body, loopVars, result, err>>

\* Lines 157-162: the check of the terminal response, pbar.close(), and
\* video_id = response["id"].
CheckResponse ==
    /\ pc = "uv_check"
    /\ pbar' = "closed"
    /\ IF LacksId(Val(response))
         THEN /\ Raise("RuntimeError")
              /\ UNCHANGED video_id
         ELSE /\ video_id' = Some(Val(response).id)
              /\ pc' = "uv_thumb"
              /\ UNCHANGED err
    /\ UNCHANGED <<bVars, mainVars, inserts, storeLog, inputVars, store,
                   gsVars, netlog, body, loopVars, result>>

\* SetThumbnail that swallows the error of the thumbnail call.
SetThumbnail_BestEffort ==
    /\ pc = "uv_thumb"
    /\ pc' = "uv_playlist"
    /\ IF thumbnail = "exists"
         THEN \E ok \in BOOLEAN :
                netlog' = Append(netlog, Call("thumbnails.set", ok, video_id))
         ELSE UNCHANGED netlog
    /\ UNCHANGED <<bVars, mainVars, inserts, storeLog, inputVars, store,
                   gsVars, body, loopVars, pbar, video_id, result, err>>

\* SetThumbnail without the os.path.exists test of line 164.
SetThumbnail_AnyPath ==
    /\ pc = "uv_thumb"
    /\ IF thumbnail /= "None"
         THEN \/ /\ netlog' = Append(netlog,
                                 Call("thumbnails.set", TRUE, video_id))
                 /\ pc' = "uv_playlist"
                 /\ UNCHANGED err
              \/ /\ netlog' = Append(netlog,
                                 Call("thumbnails.set", FALSE, video_id))
                 /\ Raise("HttpError:thumbnail")
         ELSE /\ pc' = "uv_playlist"
              /\ UNCHANGED <<netlog, err>>
    /\ UNCHANGED <<bVars, mainVars, inserts, storeLog, inputVars, store,
                   gsVars, body, loopVars, pbar, video_id, result>>

\* Lines 164-165: thumbnails().set(...).execute() when the path is given and
\* exists; an HttpError leaves upload_video.
SetThumbnail ==
    /\ pc = "uv_thumb"
    /\ IF thumbnail = "exists"
         THEN \/ /\ netlog' = Append(netlog,
                                 Call("thumbnails.set", TRUE, video_id))
                 /\ pc' = "uv_playlist"
                 /\ UNCHANGED err
              \/ /\ netlog' = Append(netlog,
                                 Call("thumbnails.set", FALSE, video_id))
                 /\ Raise("HttpError:thumbnail")
         ELSE /\ pc' = "uv_playlist"
              /\ UNCHANGED <<netlog, err>>
    /\ UNCHANGED <<bVars, mainVars, inserts, storeLog, inputVars, store,
                   gsVars, body, loopVars, pbar, video_id, result>>

\* Lines 167-176: playlistItems().insert(...).execute() when playlist_id is
\* given; an HttpError leaves upload_video.
InsertPlaylist ==
    /\ pc = "uv_playlist"
    /\ IF Truthy(playlist_id)
         THEN \/ /\ netlog' = Append(netlog,
                                 Call("playlistItems.insert", TRUE, video_id))
                 /\ pc' = "uv_return"
                 /\ UNCHANGED err
              \/ /\ netlog' = Append(netlog,
                                 Call("playlistItems.insert", FALSE, video_id))
                 /\ Raise("HttpError:playlist")
         ELSE /\ pc' = "uv_return"
              /\ UNCHANGED <<netlog, err>>
    /\ UNCHANGED <<bVars, mainVars, inserts, storeLog, inputVars, store,
                   gsVars, body, loopVars, pbar, video_id, result>>

\* Line 178: return video_id.
ReturnVideoId ==
    /\ pc = "uv_return"
    /\ result' = video_id
    /\ pc' = "returned"
    /\ UNCHANGED <<bVars, mainVars, inserts, storeLog, inputVars, store,
                   gsVars, netlog, body, loopVars, pbar, video_id, err>>

Next ==
    \/ UploadStart
    \/ LoadToken
    \/ TryRefresh
    \/ SaveRefreshed
    \/ CheckValid
    \/ SecondRefresh
    \/ SaveSecondRefresh
    \/ RunLocalServer
    \/ RunConsole
    \/ SaveAuthorized
    \/ BuildService
    \/ BuildRequest
    \/ NextChunk
    \/ CheckResponse
    \/ SetThumbnail
    \/ InsertPlaylist
    \/ ReturnVideoId

Spec == Init /\ [][Next]_vars
\* ------------------------------------------------------------- properties
\* Number of calls named x in the log s.
Count(s, x) == Cardinality({i \in DOMAIN s : s[i].call = x})

RECURSIVE SumSeq(_)
SumSeq(s) == IF s = <<>> THEN 0 ELSE s[1] + SumSeq(Tail(s))

CeilDiv(a, b) == (a + b - 1) \div b

\* get_service has ended by raising.
GsRaised ==
    /\ pc = "failed"
    /\ err \in {"FileNotFoundError:client_secrets", "RefreshError", "AuthError"}

\* get_service has ended, by returning or by raising.
GsEnded == service /= None \/ GsRaised

\* No refresh, no interactive authorization, no store write so far.
NoAuthEffects ==
    /\ Count(netlog, "refresh") = 0
    /\ Count(netlog, "run_local_server") = 0
    /\ Count(netlog, "run_console") = 0
    /\ storeWrites = 0

\* C1: the status body given to the insert request has privacyStatus
\* "private" and the given publishAt whenever publish_at is set
\* (non-empty), whatever privacy_status was asked; otherwise it has the
\* requested privacy_status and no publishAt.
C1_ScheduledIsPrivate ==
    body /= None =>
        IF publish_at /= None /\ Val(publish_at) /= ""
          THEN /\ Val(body).privacyStatus = "private"
               /\ "publishAt" \in DOMAIN Val(body)
               /\ Val(body).publishAt = Val(publish_at)
          ELSE /\ Val(body).privacyStatus = privacy_status
               /\ "publishAt" \notin DOMAIN Val(body)

C1_Witness ==
    /\ body /= None
    /\ privacy_status = "public"
    /\ publish_at = Some("2025-01-31T10:00:00Z")
    /\ negotiated

\* C2: once the loop has ended with a response that has no "id",
\* upload_video can only fail with the RuntimeError: no video id is taken
\* or returned, and no thumbnail or playlist call is made.
C2_MissingIdRejected ==
    (response /= None /\ "id" \notin DOMAIN Val(response)) =>
        /\ video_id = None
        /\ result = None
        /\ pc \in {"uv_check", "failed"}
        /\ pc = "failed" => err = "RuntimeError"
        /\ Count(netlog, "thumbnails.set") = 0
        /\ Count(netlog, "playlistItems.insert") = 0

C2_Witness ==
    /\ response /= None
    /\ "id" \notin DOMAIN Val(response)
    /\ pc = "failed"
    /\ thumbnail = "exists"
    /\ playlist_id = Some("PL1")

\* C3: the values shown on the progress bar are strictly increasing,
\* whatever offsets the acknowledgments named.
C3_ProgressStrictlyIncreasing ==
    /\ \A i, j \in DOMAIN emitted : i < j => emitted[i] < emitted[j]
    /\ emitted /= <<>> => emitted[Len(emitted)] = last_progress

\* Two values were shown and the last acknowledgment named a lower one.
C3_Witness ==
    /\ pc = "uv_loop"
    /\ Len(emitted) >= 2
    /\ ProgressOf(offset, fileSize) < last_progress

\* C4: with a credential in the store, get_service returns that credential
\* unchanged, without refresh, interactive authorization or store write,
\* if and only if the credential is not expired.
C4_UnchangedIffNotExpired ==
    (loaded /= None) =>
        /\ ~Val(loaded).expired =>
              /\ NoAuthEffects
              /\ ~GsRaised
              /\ pc = "gs_build" => creds = loaded
              /\ service /= None => service = loaded
        /\ (Val(loaded).expired /\ GsEnded) =>
              ~(service = loaded /\ NoAuthEffects)

C4_Witness ==
    /\ loaded /= None
    /\ ~Val(loaded).expired
    /\ service = loaded
    /\ pc = "returned"

\* C5 as stated: after the refresh of an expired stored credential failed,
\* get_service has run the interactive flow exactly once and issued no
\* further refresh by the time it ends.
C5_FlowExactlyOnce ==
    (refreshCaught /\ GsEnded) =>
        /\ Count(netlog, "run_local_server") = 1
        /\ Count(netlog, "refresh") = 1

\* C5, amended: after the refresh of an expired stored credential failed,
\* the credential is discarded and no further refresh is issued; the
\* interactive flow is run exactly once if the client-secrets file exists,
\* and not at all, get_service raising the configuration error, if not.
C5_FlowOnceOrConfigError ==
    refreshCaught =>
        /\ Count(netlog, "refresh") = 1
        /\ pc /= "gs_refresh2"
        /\ pc = "gs_check" => creds = None
        /\ Count(netlog, "run_local_server") <= 1
        /\ Count(netlog, "run_console") <= 1
        /\ GsEnded =>
              IF secrets_exists
                THEN Count(netlog, "run_local_server") = 1
                ELSE /\ Count(netlog, "run_local_server") = 0
                     /\ Count(netlog, "run_console") = 0
                     /\ err = "FileNotFoundError:client_secrets"
        /\ service /= None => Val(service).token /= Val(loaded).token

C5_Witness ==
    /\ refreshCaught
    /\ service /= None
    /\ Count(netlog, "run_local_server") = 1
    /\ Count(netlog, "refresh") = 1

\* C6 as stated: an upload that failed on a chunk transfer error failed only
\* after the failed transfer had been retried at least once.
C6_ChunkFailureRetried ==
    (pc = "failed" /\ err = "HttpError:chunk") => chunkErrors >= 2

\* C7: when the file does not exist, upload_video raises the file-not-found
\* error with get_service never called, the token store neither read nor
\* written, and no network call made.
C7_MissingFileBeforeAnything ==
    ~file_exists =>
        /\ pc \in {"uv_start", "failed"}
        /\ pc = "failed" => err = "FileNotFoundError:video"
        /\ gsCalls = 0
        /\ storeReads = 0
        /\ storeWrites = 0
        /\ netlog = <<>>
        /\ chunks = <<>>
        /\ body = None
        /\ result = None

C7_Witness ==
    /\ ~file_exists
    /\ pc = "failed"
    /\ err = "FileNotFoundError:video"

\* C8: when the token store was empty and the client-secrets file is
\* absent, get_service raises the configuration error with no call to the
\* authorization server and no store write.
C8_ConfigErrorBeforeAuth ==
    (storeReads = 1 /\ loaded = None /\ ~secrets_exists) =>
        /\ pc \in {"gs_check", "failed"}
        /\ pc = "failed" => err = "FileNotFoundError:client_secrets"
        /\ netlog = <<>>
        /\ storeWrites = 0
        /\ store = None
        /\ service = None

C8_Witness ==
    /\ storeReads = 1
    /\ loaded = None
    /\ ~secrets_exists
    /\ pc = "failed"
    /\ err = "FileNotFoundError:client_secrets"

\* C9: as long as every acknowledgment was a full one, the chunks sent are
\* full chunks from offset 0 that stay inside the file; when the final response arrives there are ceil(N/C) of them,
\* summing to N, the last of length N mod C (C when that is 0); and what
\* upload_video returns is the id of the final response.
C9_ChunkCoverage ==
    /\ ~anomaly =>
          /\ chunkErrors = 0 => offset = SumSeq(chunks)
          /\ SumSeq(chunks) <= fileSize
          /\ \A i \in DOMAIN chunks : i < Len(chunks) => chunks[i] = ChunkSize
    /\ (~anomaly /\ response /= None) =>
          /\ Len(chunks) = CeilDiv(fileSize, ChunkSize)
          /\ SumSeq(chunks) = fileSize
          /\ chunks[Len(chunks)] = IF fileSize % ChunkSize = 0
                                     THEN ChunkSize
                                     ELSE fileSize % ChunkSize
    /\ pc = "returned" => result = Some(Val(response).id)

\* The 20 MiB file of the end-to-end scenario: chunks of 8, 8 and 4 MiB.
C9_Witness ==
    /\ pc = "returned"
    /\ ~anomaly
    /\ fileSize = 20
    /\ chunks = <<8, 8, 4>>
    /\ result = Some("abc123")

\* C10 as stated: one get_service call writes the token store at most once.
C10_AtMostOneWrite == storeWrites <= 1

\* The calls made after the upload: thumbnail and playlist.
PostCalls == {"thumbnails.set", "playlistItems.insert"}

\* C11: a failed thumbnail or playlist call after a successful upload makes
\* upload_video fail with that error: no video id is returned, and the
\* failed call is the last call made (no rollback of the video, and no
\* playlist call after a failed thumbnail call).
C11_PostStepFailurePropagates ==
    \A i \in DOMAIN netlog :
        (netlog[i].call \in PostCalls /\ ~netlog[i].ok) =>
            /\ pc = "failed"
            /\ err = IF netlog[i].call = "thumbnails.set"
                       THEN "HttpError:thumbnail"
                       ELSE "HttpError:playlist"
            /\ result = None
            /\ video_id /= None
            /\ i = Len(netlog)
            /\ netlog[i].call = "thumbnails.set" =>
                  Count(netlog, "playlistItems.insert") = 0

\* The thumbnail call failed although a playlist was asked for.
C11_Witness ==
    /\ netlog /= <<>>
    /\ netlog[Len(netlog)].call = "thumbnails.set"
    /\ ~netlog[Len(netlog)].ok
    /\ playlist_id = Some("PL1")
    /\ pc = "failed"

\* ------------------------------------------------------------------- main
\* file_path and title as main sees them: None, empty, or given.
FilePathChoices == {None, Some(""), Some("video.mp4")}
TitleChoices == {None, Some(""), Some("My video")}

\* _parse_publish_at (lines 77-100) on the inputs followed here: an RFC3339
\* time in UTC is kept, a time with an offset is converted to UTC.  Any other
\* modelled input makes fromisoformat raise, which line 96 turns into
\* ValueError.
ParsePublishAt ==
    [s \in {"2025-01-31T10:00:00Z", "2025-01-31T12:00:00+02:00"} |->
        "2025-01-31T10:00:00Z"]

\* --publish-at values: None, empty, well-formed, malformed.
PublishInputChoices ==
    {None, Some(""), Some("tomorrow")} \cup {Some(s) : s \in DOMAIN ParsePublishAt}

\* The state in which main starts, after the flags and the metadata file
\* have been merged (lines 208-232).
InitMain ==
    /\ pc = "main_start"
    /\ file_path \in FilePathChoices
    /\ title \in TitleChoices
    /\ publish_at_input \in PublishInputChoices
    /\ exitCode = None
    /\ file_exists \in BOOLEAN
    /\ fileSize = 0
    /\ privacy_status \in PrivacyChoices
    /\ publish_at = None
    /\ thumbnail \in ThumbnailChoices
    /\ playlist_id \in PlaylistChoices
    /\ secrets_exists \in BOOLEAN
    /\ store \in {None} \cup {Some(c) : c \in StoredCreds}
    /\ creds = None
    /\ loaded = None
    /\ service = None
    /\ issued = 1
    /\ gsCalls = 0
    /\ storeReads = 0
    /\ storeWrites = 0
    /\ refreshCaught = FALSE
    /\ netlog = <<>>
    /\ body = None
    /\ negotiated = FALSE
    /\ offset = 0
    /\ chunks = <<>>
    /\ chunkErrors = 0
    /\ anomaly = FALSE
    /\ response = None
    /\ last_progress = 0
    /\ emitted = <<>>
    /\ pbar = "none"
    /\ video_id = None
    /\ result = None
    /\ err = "none"
    /\ inserts = 0
    /\ storeLog = <<>>
    /\ pcB = "idle"
    /\ credsB = None
    /\ loadedB = None
    /\ serviceB = None
    /\ netlogB = <<>>

\* sys.exit(code), or the interpreter ending on an uncaught exception.
Exit(code) ==
    /\ exitCode' = Some(code)
    /\ pc' = "exited"

\* MainValidate looking at file_path only.
MainValidate_FileOnly ==
    /\ pc = "main_start"
    /\ IF ~Truthy(file_path)
         THEN Exit(2)
         ELSE pc' = "main_parse" /\ UNCHANGED exitCode
    /\ UNCHANGED <<bVars, file_path, title, publish_at_input, inserts,
                   storeLog, inputVars, store, gsVars, netlog, body, loopVars,
                   pbar, video_id, result, err>>

\* Lines 234-236: the required fields.
MainValidate ==
    /\ pc = "main_start"
    /\ IF ~Truthy(file_path) \/ ~Truthy(title)
         THEN Exit(2)
         ELSE pc' = "main_parse" /\ UNCHANGED exitCode
    /\ UNCHANGED <<bVars, file_path, title, publish_at_input, inserts,
                   storeLog, inputVars, store, gsVars, netlog, body, loopVars,
                   pbar, video_id, result, err>>

\* Exit status of the interpreter when an exception leaves main() on
\* line 261.
UncaughtExit == 1

\* Line 238, then the call of upload_video on line 241.  The ValueError of
\* _parse_publish_at is raised outside the try of line 240.
MainParsePublishAt ==
    /\ pc = "main_parse"
    /\ IF ~Truthy(publish_at_input)
         THEN /\ publish_at' = None
              /\ pc' = "uv_start"
              /\ UNCHANGED <<exitCode, err>>
         ELSE IF Val(publish_at_input) \in DOMAIN ParsePublishAt
           THEN /\ publish_at' = Some(ParsePublishAt[Val(publish_at_input)])
                /\ pc' = "uv_start"
                /\ UNCHANGED <<exitCode, err>>
           ELSE /\ err' = "ValueError"
                /\ Exit(UncaughtExit)
                /\ UNCHANGED publish_at
    /\ UNCHANGED <<bVars, file_path, title, publish_at_input, inserts,
                   storeLog, file_exists, fileSize, privacy_status, thumbnail,
                   playlist_id, secrets_exists, store, gsVars, netlog, body,
                   loopVars, pbar, video_id, result>>

\* The exceptions of upload_video that are HttpError (ResumableUploadError
\* is a subclass) and so reach the except clause of line 253.
CaughtByMain(e) ==
    e \in {"NegotiationError", "HttpError:chunk", "HttpError:thumbnail",
           "HttpError:playlist"}

\* Lines 253-257: upload_video returned (print, normal end, status 0),
\* raised an HttpError (sys.exit(1)), or raised anything else, which leaves
\* main uncaught.
MainFinish ==
    /\ pc \in {"returned", "failed"}
    /\ IF pc = "returned"
         THEN Exit(0)
         ELSE IF CaughtByMain(err) THEN Exit(1) ELSE Exit(UncaughtExit)
    /\ UNCHANGED <<bVars, file_path, title, publish_at_input, inserts,
                   storeLog, inputVars, store, gsVars, netlog, body, loopVars,
                   pbar, video_id, result, err>>

NextMain ==
    \/ MainValidate
    \/ MainParsePublishAt
    \/ UploadStart
    \/ LoadToken
    \/ TryRefresh
    \/ SaveRefreshed
    \/ CheckValid
    \/ SecondRefresh
    \/ SaveSecondRefresh
    \/ RunLocalServer
    \/ RunConsole
    \/ SaveAuthorized
    \/ BuildService
    \/ BuildRequest
    \/ NextChunk
    \/ CheckResponse
    \/ SetThumbnail
    \/ InsertPlaylist
    \/ ReturnVideoId
    \/ MainFinish

SpecMain == InitMain /\ [][NextMain]_vars

\* A required field is missing after the merge.
MissingRequired == ~Truthy(file_path) \/ ~Truthy(title)

\* The run ended on a local validation failure.
LocalValidationFailure ==
    \/ MissingRequired
    \/ err \in {"FileNotFoundError:video", "ValueError"}

\* The run ended on a failure of the credential, upload, thumbnail or
\* playlist service.
ServiceFailure ==
    err \in {"FileNotFoundError:client_secrets", "RefreshError", "AuthError",
             "NegotiationError", "HttpError:chunk", "RuntimeError",
             "HttpError:thumbnail", "HttpError:playlist"}

\* C12 as stated: a run of main that ends on a local validation failure
\* ends with exit code 2, one that ends on a service failure with exit
\* code 1.
C12_ExitCodeByFailureKind ==
    pc = "exited" =>
        /\ LocalValidationFailure => exitCode = Some(2)
        /\ ServiceFailure => exitCode = Some(1)

\* C13: with file_path or title missing or empty, main exits with code 2
\* and nothing has happened before: no get_service call, no token store
\* access, no network call; and exit code 0 is only reached after
\* upload_video returned a video id.
C13_MissingFieldsExitBeforeAnything ==
    /\ MissingRequired =>
          /\ pc \in {"main_start", "exited"}
          /\ pc = "exited" => exitCode = Some(2)
          /\ gsCalls = 0
          /\ storeReads = 0
          /\ storeWrites = 0
          /\ netlog = <<>>
          /\ chunks = <<>>
          /\ inserts = 0
    /\ exitCode = Some(0) =>
          /\ result /= None
          /\ result = video_id
          /\ err = "none"

\* The file is given and exists, only the title is empty.
C13_Witness ==
    /\ pc = "exited"
    /\ exitCode = Some(2)
    /\ file_path = Some("video.mp4")
    /\ file_exists
    /\ title = Some("")

\* The state of the upload session of section 4.2, read off the variables:
\* Idle until the insert request exists, Negotiating until next_chunk has
\* opened the resumable session, Streaming until the loop has ended and the
\* identifier has been taken, then Completed; Failed when an exception left
\* upload_video after the request was created and before an identifier was
\* obtained.
SessionState ==
    IF inserts = 0 THEN "Idle"
    ELSE IF video_id /= None THEN "Completed"
    ELSE IF pc = "failed" THEN "Failed"
    ELSE IF negotiated THEN "Streaming"
    ELSE "Negotiating"

SessionTransitions ==
    {<<"Idle", "Negotiating">>,
     <<"Negotiating", "Streaming">>, <<"Negotiating", "Failed">>,
     <<"Streaming", "Streaming">>, <<"Streaming", "Completed">>,
     <<"Streaming", "Failed">>}

\* C14: the session goes Idle -> Negotiating -> Streaming -> Completed or
\* Failed and nowhere else; the insert request is created at most once and
\* the session is opened at most once; next_chunk is called only while
\* Negotiating or Streaming with no response yet, so never after Completed
\* or Failed.
C14_SessionStateMachine ==
    /\ [](inserts <= 1 /\ Count(netlog, "negotiate") <= 1)
    /\ [][/\ SessionState' /= SessionState =>
                <<SessionState, SessionState'>> \in SessionTransitions
          /\ inserts' /= inserts => SessionState = "Idle"
          /\ chunks' /= chunks =>
                /\ SessionState \in {"Negotiating", "Streaming"}
                /\ response = None
                /\ pc = "uv_loop"
          /\ SessionState \in {"Completed", "Failed"} =>
                /\ chunks' = chunks
                /\ inserts' = inserts
                /\ SessionState' = SessionState]_vars

\* A chunk transfer failed after an earlier chunk had been acknowledged.
C14_Witness ==
    /\ SessionState = "Failed"
    /\ err = "HttpError:chunk"
    /\ Len(chunks) >= 2
    /\ inserts = 1

\* C15: the thumbnail call and the playlist call are each made at most
\* once, only once the loop has ended with a response that has an id, the
\* thumbnail call first, both with the id of that response, which is what
\* upload_video returns; the thumbnail call only for a given, existing
\* thumbnail_path, the playlist call only for a given playlist_id.
C15_PostCallsOnceInOrder ==
    /\ Count(netlog, "thumbnails.set") <= 1
    /\ Count(netlog, "playlistItems.insert") <= 1
    /\ \A i \in DOMAIN netlog :
          netlog[i].call \in PostCalls =>
              /\ response /= None
              /\ "id" \in DOMAIN Val(response)
              /\ netlog[i].arg = Some(Val(response).id)
              /\ netlog[i].arg = video_id
              /\ pc = "returned" => netlog[i].arg = result
              /\ result /= None => pc = "returned"
    /\ \A i, j \in DOMAIN netlog :
          (/\ netlog[i].call = "thumbnails.set"
           /\ netlog[j].call = "playlistItems.insert") => i < j
    /\ Count(netlog, "thumbnails.set") = 1 => thumbnail = "exists"
    /\ Count(netlog, "playlistItems.insert") = 1 =>
          (playlist_id /= None /\ playlist_id /= Some(""))

\* Both calls were made and upload_video returned.
C15_Witness ==
    /\ pc = "returned"
    /\ Count(netlog, "thumbnails.set") = 1
    /\ Count(netlog, "playlistItems.insert") = 1
    /\ result = Some("abc123")

\* The calls to the authorization server.
AuthCalls == {"refresh", "run_local_server", "run_console"}
FlowCalls == {"run_local_server", "run_console"}

\* C16: when get_service has returned after a successful refresh or
\* interactive authorization, the token store holds the very credential the
\* service was built with, which is the last one written and carries the
\* newest access token.
C16_StoreHoldsReturnedCredential ==
    (/\ service /= None
     /\ \E i \in DOMAIN netlog : netlog[i].call \in AuthCalls /\ netlog[i].ok)
    => /\ store = service
       /\ storeLog /= <<>>
       /\ storeLog[Len(storeLog)] = Val(service)
       /\ Val(service).token = issued

\* get_service returned after the stored credential had been refreshed.
C16_Witness ==
    /\ service /= None
    /\ loaded /= None
    /\ netlog /= <<>>
    /\ netlog[1].call = "refresh"
    /\ netlog[1].ok
    /\ Val(service).token /= Val(loaded).token
    /\ pc = "returned"

\* C17: the console flow is started only right after a failed loopback
\* flow, a successful loopback flow is never followed by a console flow,
\* and when get_service returns after a flow the credential of the flow that
\* succeeded is the one in the store and in the service.
C17_LoopbackThenConsole ==
    /\ Count(netlog, "run_local_server") <= 1
    /\ Count(netlog, "run_console") <= 1
    /\ \A i \in DOMAIN netlog :
          netlog[i].call = "run_console" =>
              /\ i > 1
              /\ netlog[i - 1].call = "run_local_server"
              /\ ~netlog[i - 1].ok
    /\ \A i \in DOMAIN netlog :
          (netlog[i].call = "run_local_server" /\ netlog[i].ok) =>
              Count(netlog, "run_console") = 0
    /\ pc = "gs_console" =>
          /\ netlog[Len(netlog)].call = "run_local_server"
          /\ ~netlog[Len(netlog)].ok
    /\ \A i \in DOMAIN netlog :
          (netlog[i].call \in FlowCalls /\ netlog[i].ok /\ service /= None) =>
              /\ Val(service).token = Val(netlog[i].arg)
              /\ store = service

\* The loopback flow failed, the console flow succeeded, get_service
\* returned.
C17_Witness ==
    /\ service /= None
    /\ Count(netlog, "run_local_server") = 1
    /\ Count(netlog, "run_console") = 1
    /\ \E i \in DOMAIN netlog : netlog[i].call = "run_console" /\ netlog[i].ok

\* The classifications of what _load_token returned.  Refreshable is read
\* as line 36 reads it: expired and with a refresh_token.
LoadedValid == loaded /= None /\ ~Val(loaded).expired
LoadedRefreshable ==
    loaded /= None /\ Val(loaded).expired /\ Val(loaded).refresh_token
LoadedAbsent == loaded = None
LoadedUnusable ==
    loaded /= None /\ Val(loaded).expired /\ ~Val(loaded).refresh_token

\* How many of the given conditions hold.
HowMany(conds) == Cardinality({i \in DOMAIN conds : conds[i]})

\* The positions of the refresh and interactive steps of get_service.
RefreshSteps == {"gs_refresh1", "gs_save1", "gs_refresh2", "gs_save2"}
FlowSteps == {"gs_local", "gs_console", "gs_save3"}

\* C18 as stated: of valid, refreshable and absent exactly one applies to
\* whatever _load_token returned.
C18_ExactlyOneOfThree ==
    storeReads = 1 =>
        HowMany(<<LoadedValid, LoadedRefreshable, LoadedAbsent>>) = 1

\* C18, amended: of valid, refreshable, and absent-or-unusable (absent, or
\* expired without refresh_token) exactly one applies to whatever
\* _load_token returned, and get_service takes its branch: a valid
\* credential goes straight to build, a refreshable one is refreshed first,
\* an absent or unusable one is never refreshed and is replaced by the
\* interactive flow or ends in the configuration error.
C18_BranchByClassification ==
    storeReads = 1 =>
        /\ HowMany(<<LoadedValid, LoadedRefreshable,
                     LoadedAbsent \/ LoadedUnusable>>) = 1
        /\ LoadedValid =>
              /\ NoAuthEffects
              /\ pc \notin RefreshSteps \cup FlowSteps
              /\ ~GsRaised
        /\ LoadedRefreshable =>
              /\ pc \notin {"gs_load"}
              /\ pc = "gs_refresh1" \/ (netlog /= <<>> /\ netlog[1].call = "refresh")
        /\ (LoadedAbsent \/ LoadedUnusable) =>
              /\ Count(netlog, "refresh") = 0
              /\ pc \notin RefreshSteps
              /\ pc = "gs_build" => Count(netlog, "run_local_server") = 1
              /\ GsRaised => err \in {"FileNotFoundError:client_secrets",
                                      "AuthError"}
              /\ service /= None =>
                    \E i \in DOMAIN netlog :
                        netlog[i].call \in FlowCalls /\ netlog[i].ok

\* An expired credential without refresh_token was replaced by the
\* interactive flow.
C18_Witness ==
    /\ LoadedUnusable
    /\ service /= None
    /\ Count(netlog, "run_local_server") = 1

\* ------------------------------------------- two callers of get_service
\* A second get_service call (another upload of a batch) on the same
\* TOKEN_FILE and authorization server.  Its steps are those of get_service
\* above on its own locals; nothing in the code orders the steps of the two
\* calls.
firstCallerVars ==
    <<pc, inputVars, creds, loaded, service, gsCalls, storeReads, storeWrites,
      refreshCaught, netlog, body, loopVars, pbar, video_id, result, err,
      mainVars, inserts>>

\* Line 35 and the test of line 36.
BLoadToken ==
    /\ pcB = "gs_load"
    /\ credsB' = store
    /\ loadedB' = store
    /\ pcB' = IF Refreshable(store) THEN "gs_refresh1" ELSE "gs_check"
    /\ UNCHANGED <<firstCallerVars, store, issued, storeLog, serviceB,
                   netlogB>>

\* Lines 37-41.
BTryRefresh ==
    /\ pcB = "gs_refresh1"
    /\ \E outcome \in RefreshOutcomes :
       /\ netlogB' = Append(netlogB, Call("refresh", outcome /= "fail",
                        IF outcome = "fail" THEN None ELSE Some(issued + 1)))
       /\ IF outcome = "fail"
            THEN /\ credsB' = None
                 /\ pcB' = "gs_check"
                 /\ UNCHANGED issued
            ELSE /\ credsB' = Some(Refreshed(Val(credsB), issued + 1, outcome))
                 /\ issued' = issued + 1
                 /\ pcB' = "gs_save1"
    /\ UNCHANGED <<firstCallerVars, store, storeLog, loadedB, serviceB>>

\* _save_token (lines 29-31) called by the second caller.
BSaveToken(nextpc) ==
    /\ store' = credsB
    /\ storeLog' = Append(storeLog, Val(credsB))
    /\ pcB' = nextpc
    /\ UNCHANGED <<firstCallerVars, issued, credsB, loadedB, serviceB,
                   netlogB>>

\* Line 39.
BSaveRefreshed ==
    /\ pcB = "gs_save1"
    /\ BSaveToken("gs_check")

\* Lines 43-53.
BCheckValid ==
    /\ pcB = "gs_check"
    /\ pcB' = IF ~NeedsAuthorization(credsB) THEN "gs_build"
              ELSE IF Refreshable(credsB) THEN "gs_refresh2"
              ELSE IF ~secrets_exists THEN "failed"
              ELSE "gs_local"
    /\ UNCHANGED <<firstCallerVars, store, issued, storeLog, credsB, loadedB,
                   serviceB, netlogB>>

\* Line 45.
BSecondRefresh ==
    /\ pcB = "gs_refresh2"
    /\ \E outcome \in RefreshOutcomes :
       /\ netlogB' = Append(netlogB, Call("refresh", outcome /= "fail",
                        IF outcome = "fail" THEN None ELSE Some(issued + 1)))
       /\ IF outcome = "fail"
            THEN /\ pcB' = "failed"
                 /\ UNCHANGED <<credsB, issued>>
            ELSE /\ credsB' = Some(Refreshed(Val(credsB), issued + 1, outcome))
                 /\ issued' = issued + 1
                 /\ pcB' = "gs_save2"
    /\ UNCHANGED <<firstCallerVars, store, storeLog, loadedB, serviceB>>

\* Line 46.
BSaveSecondRefresh ==
    /\ pcB = "gs_save2"
    /\ BSaveToken("gs_build")

\* Lines 54-57.
BRunLocalServer ==
    /\ pcB = "gs_local"
    /\ \/ /\ \E rt \in BOOLEAN : credsB' = Some(Authorized(issued + 1, rt))
          /\ issued' = issued + 1
          /\ netlogB' = Append(netlogB,
                               Call("run_local_server", TRUE, Some(issued + 1)))
          /\ pcB' = "gs_save3"
       \/ /\ pcB' = "gs_console"
          /\ netlogB' = Append(netlogB, Call("run_local_server", FALSE, None))
          /\ UNCHANGED <<credsB, issued>>
    /\ UNCHANGED <<firstCallerVars, store, storeLog, loadedB, serviceB>>

\* Line 58.
BRunConsole ==
    /\ pcB = "gs_console"
    /\ \/ /\ \E rt \in BOOLEAN : credsB' = Some(Authorized(issued + 1, rt))
          /\ issued' = issued + 1
          /\ netlogB' = Append(netlogB,
                               Call("run_console", TRUE, Some(issued + 1)))
          /\ pcB' = "gs_save3"
       \/ /\ pcB' = "failed"
          /\ netlogB' = Append(netlogB, Call("run_console", FALSE, None))
          /\ UNCHANGED <<credsB, issued>>
    /\ UNCHANGED <<firstCallerVars, store, storeLog, loadedB, serviceB>>

\* Line 59.
BSaveAuthorized ==
    /\ pcB = "gs_save3"
    /\ BSaveToken("gs_build")

\* Line 61.
BBuildService ==
    /\ pcB = "gs_build"
    /\ serviceB' = credsB
    /\ pcB' = "returned"
    /\ UNCHANGED <<firstCallerVars, store, issued, storeLog, credsB, loadedB,
                   netlogB>>

\* Both callers are about to run get_service on the same TOKEN_FILE.
InitConc ==
    /\ pc = "gs_load"
    /\ pcB = "gs_load"
    /\ file_exists = TRUE
    /\ fileSize = 0
    /\ privacy_status = "unlisted"
    /\ publish_at = None
    /\ thumbnail = "None"
    /\ playlist_id = None
    /\ secrets_exists \in BOOLEAN
    /\ store \in {None} \cup {Some(c) : c \in StoredCreds}
    /\ creds = None
    /\ loaded = None
    /\ service = None
    /\ issued = 1
    /\ gsCalls = 1
    /\ storeReads = 0
    /\ storeWrites = 0
    /\ refreshCaught = FALSE
    /\ netlog = <<>>
    /\ body = None
    /\ negotiated = FALSE
    /\ offset = 0
    /\ chunks = <<>>
    /\ chunkErrors = 0
    /\ anomaly = FALSE
    /\ response = None
    /\ last_progress = 0
    /\ emitted = <<>>
    /\ pbar = "none"
    /\ video_id = None
    /\ result = None
    /\ err = "none"
    /\ inserts = 0
    /\ storeLog = <<>>
    /\ credsB = None
    /\ loadedB = None
    /\ serviceB = None
    /\ netlogB = <<>>
    /\ file_path = None
    /\ title = None
    /\ publish_at_input = None
    /\ exitCode = None

NextConc ==
    \/ LoadToken
    \/ TryRefresh
    \/ SaveRefreshed
    \/ CheckValid
    \/ SecondRefresh
    \/ SaveSecondRefresh
    \/ RunLocalServer
    \/ RunConsole
    \/ SaveAuthorized
    \/ BuildService
    \/ BLoadToken
    \/ BTryRefresh
    \/ BSaveRefreshed
    \/ BCheckValid
    \/ BSecondRefresh
    \/ BSaveSecondRefresh
    \/ BRunLocalServer
    \/ BRunConsole
    \/ BSaveAuthorized
    \/ BBuildService

SpecConc == InitConc /\ [][NextConc]_vars

\* Both callers loaded the same expired credential with a refresh_token and
\* both have returned.
BothRaced ==
    /\ loaded /= None
    /\ loadedB = loaded
    /\ Val(loaded).expired
    /\ Val(loaded).refresh_token
    /\ service /= None
    /\ serviceB /= None

\* C19: nothing keeps two get_service calls apart.  When both loaded the
\* same expired, refreshable credential and both returned, both have called
\* refresh and both have written the store; they hold different
\* credentials, the store holds the one written last, which is the
\* credential of one caller, and the credential of the other is not in the
\* store.
C19_ConcurrentRefreshRace ==
    BothRaced =>
        /\ netlog[1].call = "refresh"
        /\ netlogB[1].call = "refresh"
        /\ \E i \in DOMAIN storeLog : storeLog[i] = Val(service)
        /\ \E i \in DOMAIN storeLog : storeLog[i] = Val(serviceB)
        /\ store = Some(storeLog[Len(storeLog)])
        /\ service /= serviceB
        /\ store \in {service, serviceB}

\* Both refreshes succeeded; the first caller wrote last, so the store holds
\* its credential and the newer credential of the second caller is lost.
C19_Witness ==
    /\ BothRaced
    /\ netlog = <<Call("refresh", TRUE, Some(2))>>
    /\ netlogB = <<Call("refresh", TRUE, Some(3))>>
    /\ Len(storeLog) = 2
    /\ store = service
    /\ Val(serviceB).token = 3
    /\ Val(service).token = 2

\* C20 as stated: one get_service call issues at most one refresh call: the
\* refresh of line 45 never follows the refresh attempt of line 38.
C20_AtMostOneRefresh ==
    /\ Count(netlog, "refresh") <= 1
    /\ pc = "gs_refresh2" => Count(netlog, "refresh") = 0
====
